---- MODULE Spec2Model ----
(***************************************************************************)
(* Model of the Naive Bayes topic classifier of                            *)
(* native/classifier_nif/src/lib.rs: tokenize, train (with                 *)
(* train_naive_bayes) and classify (with classify_naive_bayes).            *)
(*                                                                         *)
(* Texts are sequences of characters (one-character strings), tokens are   *)
(* sequences of characters, topic labels are strings.                      *)
(*                                                                         *)
(* f64 values are modelled as exact non-negative rationals in lowest       *)
(* terms, extended with the IEEE values +infinity and NaN; rounding and    *)
(* underflow are not modelled.  A log-space value is represented by the    *)
(* number whose logarithm it is, so that adding logarithms is multiplying  *)
(* and subtracting logarithms is dividing, with the IEEE outcomes for      *)
(* infinity and NaN preserved (inf - inf = NaN is inf / inf = NaN).        *)
(***************************************************************************)
EXTENDS Integers, Sequences, FiniteSets, TLC

(***************************************************************************)
(* Bounds of the explored inputs.                                          *)
(***************************************************************************)
\* records in the list handed to train
MaxDocs == 2
\* characters of a text handed to tokenize on its own
MaxTextLen == 3

(***************************************************************************)
(* Generic helpers.                                                        *)
(***************************************************************************)
SeqsUpTo(S, n) == UNION {[1..k -> S] : k \in 0..n}

Range(s) == {s[i] : i \in DOMAIN s}

\* All orders in which the elements of S can be enumerated.
Permutations_(S) == {p \in [1..Cardinality(S) -> S] : Range(p) = S}

RECURSIVE GCD(_, _)
GCD(a, b) == IF b = 0 THEN a ELSE GCD(b, a % b)

(***************************************************************************)
(* f64: [k |-> "fin", n, d] is n/d in lowest terms (n >= 0, d > 0).        *)
(***************************************************************************)
Rat(n, d) == LET g == GCD(n, d) IN [k |-> "fin", n |-> n \div g, d |-> d \div g]
FInf == [k |-> "inf", n |-> 1, d |-> 0]
FNaN == [k |-> "nan", n |-> 0, d |-> 0]
FZero == Rat(0, 1)
FOne == Rat(1, 1)

\* `x as f64` for an integer x
AsF64(x) == Rat(x, 1)

IsNaN(a) == a.k = "nan"

FAdd(a, b) ==
    IF IsNaN(a) \/ IsNaN(b) THEN FNaN
    ELSE IF a.k = "inf" \/ b.k = "inf" THEN FInf
    ELSE LET g == GCD(a.d, b.d)
         IN  Rat(a.n * (b.d \div g) + b.n * (a.d \div g), a.d * (b.d \div g))

FMul(a, b) ==
    IF IsNaN(a) \/ IsNaN(b) THEN FNaN
    ELSE IF a.k = "inf" THEN (IF b.k = "fin" /\ b.n = 0 THEN FNaN ELSE FInf)
    ELSE IF b.k = "inf" THEN (IF a.n = 0 THEN FNaN ELSE FInf)
    ELSE LET g1 == GCD(a.n, b.d)
             g2 == GCD(b.n, a.d)
         IN  Rat((a.n \div g1) * (b.n \div g2), (a.d \div g2) * (b.d \div g1))

FDiv(a, b) ==
    IF IsNaN(a) \/ IsNaN(b) THEN FNaN
    ELSE IF a.k = "inf" THEN (IF b.k = "inf" THEN FNaN ELSE FInf)
    ELSE IF b.k = "inf" THEN FZero
    ELSE IF b.n = 0 THEN (IF a.n = 0 THEN FNaN ELSE FInf)
    ELSE IF a.n = 0 THEN FZero
    ELSE LET g1 == GCD(a.n, b.n)
             g2 == GCD(a.d, b.d)
         IN  Rat((a.n \div g1) * (b.d \div g2), (a.d \div g2) * (b.n \div g1))

\* a < b on f64: false as soon as one side is NaN
FLt(a, b) ==
    IF IsNaN(a) \/ IsNaN(b) THEN FALSE
    ELSE IF a.k = "inf" THEN FALSE
    ELSE IF b.k = "inf" THEN TRUE
    ELSE LET g == GCD(a.d, b.d)
         IN  a.n * (b.d \div g) < b.n * (a.d \div g)

FGt(a, b) == FLt(b, a)

FLe(a, b) == ~IsNaN(a) /\ ~IsNaN(b) /\ ~FLt(b, a)

\* f64::partial_cmp followed by unwrap_or(Ordering::Equal)
PartialCmpOrEqual(a, b) ==
    IF FLt(a, b) THEN "Less" ELSE IF FLt(b, a) THEN "Greater" ELSE "Equal"

\* f64::max: the other operand when one is NaN
F64Max(a, b) ==
    IF IsNaN(a) THEN b ELSE IF IsNaN(b) THEN a ELSE IF FLt(a, b) THEN b ELSE a

(***************************************************************************)
(* Log space: [exp |-> x] is the f64 whose exponential is x, so            *)
(* [exp |-> 0] is -infinity and [exp |-> inf] is +infinity.                *)
(***************************************************************************)
Ln(x) == [exp |-> x]
Exp(l) == l.exp
NEG_INFINITY == [exp |-> FZero]
LogAdd(l, m) == [exp |-> FMul(l.exp, m.exp)]
LogSub(l, m) == [exp |-> FDiv(l.exp, m.exp)]
LogMax(l, m) == [exp |-> F64Max(l.exp, m.exp)]

(***************************************************************************)
(* Characters.                                                             *)
(***************************************************************************)
AsciiLower == {"a","b","c","d","e","f","g","h","i","j","k","l","m",
               "n","o","p","q","r","s","t","u","v","w","x","y","z"}
AsciiUpper == {"A", "B"}
AsciiDigit == {"0", "1"}
Whitelisted == {"ñ", "á", "é", "í", "ó", "ú", "ü"}
\* alphabetic characters outside ASCII and outside the whitelist
OtherAlphabetic == {"ç", "Ñ"}

\* number of bytes of the UTF-8 encoding of c
Utf8Len(c) == IF c \in Whitelisted \cup OtherAlphabetic THEN 2 ELSE 1

RECURSIVE StrLen(_)
\* str::len: the length in bytes
StrLen(s) == IF s = <<>> THEN 0 ELSE Utf8Len(Head(s)) + StrLen(Tail(s))

\* char::is_alphanumeric: the Unicode Alphabetic and Numeric characters
IsAlphanumeric(c) ==
    c \in AsciiLower \cup AsciiUpper \cup AsciiDigit \cup Whitelisted \cup OtherAlphabetic

LowerChar(c) ==
    CASE c = "A" -> "a"
      [] c = "B" -> "b"
      [] c = "Ñ" -> "ñ"
      [] OTHER -> c

\* str::to_lowercase
ToLowercase(s) == [i \in DOMAIN s |-> LowerChar(s[i])]

\* the closure passed to split
IsSeparator(c) == ~IsAlphanumeric(c) /\ c \notin Whitelisted

RECURSIVE SplitFrom(_, _, _)
SplitFrom(s, i, cur) ==
    IF i > Len(s) THEN <<cur>>
    ELSE IF IsSeparator(s[i]) THEN <<cur>> \o SplitFrom(s, i + 1, <<>>)
    ELSE SplitFrom(s, i + 1, Append(cur, s[i]))

\* str::split: the fragments between separators, empty ones included
Split(s) == SplitFrom(s, 1, <<>>)

KeepFragment(s) == s # <<>> /\ StrLen(s) > 2

tokenize(text) == SelectSeq(Split(ToLowercase(text)), KeepFragment)

(***************************************************************************)
(* Maps (HashMap) are functions; Option values carry a flag.               *)
(***************************************************************************)
EmptyMap == <<>>
Put(m, key, v) == (key :> v) @@ m
GetOr(m, key, default) == IF key \in DOMAIN m THEN m[key] ELSE default

None == [some |-> FALSE, v |-> <<>>]
Some(x) == [some |-> TRUE, v |-> x]

(***************************************************************************)
(* Terms handed over by the caller: a record of the training list has a    *)
(* content and a topics entry, each absent, not decodable (an integer),    *)
(* a binary (content) or a list of binaries (topics).                      *)
(***************************************************************************)
AbsentTerm == [tag |-> "absent", val |-> <<>>]
IntegerTerm == [tag |-> "integer", val |-> <<>>]
BinaryTerm(text) == [tag |-> "binary", val |-> text]
ListTerm(l) == [tag |-> "list", val |-> l]

\* doc_term.map_get(content_atom) followed by term.decode().ok()
DecodeContent(doc_term) ==
    IF doc_term.content.tag = "binary" THEN Some(doc_term.content.val) ELSE None

\* doc_term.map_get(topics_atom) followed by term.decode().ok()
DecodeTopics(doc_term) ==
    IF doc_term.topics.tag = "list" THEN Some(doc_term.topics.val) ELSE None

\* IsAccepted without the test that the topic list is non-empty
IsAcceptedAnyTopics(content, topics) ==
    /\ content.some
    /\ topics.some
    /\ content.v # <<>>

\* the guard of the match arm that keeps a record
IsAccepted(content, topics) ==
    /\ content.some
    /\ topics.some
    /\ content.v # <<>>
    /\ topics.v # <<>>

\* TrainStep with the vocabulary built before the record is filtered
TrainStepVocabularyFirst(acc, doc_term) ==
    LET content == DecodeContent(doc_term)
        topics == DecodeTopics(doc_term)
        vocabulary == IF content.some
                      THEN acc.vocabulary \cup Range(tokenize(content.v))
                      ELSE acc.vocabulary
    IN  IF IsAccepted(content, topics)
        THEN [documents |-> Append(acc.documents,
                                   [content |-> content.v, topics |-> topics.v]),
              vocabulary |-> vocabulary]
        ELSE [documents |-> acc.documents, vocabulary |-> vocabulary]

\* one iteration of the loop over docs_list
TrainStep(acc, doc_term) ==
    LET content == DecodeContent(doc_term)
        topics == DecodeTopics(doc_term)
    IN  IF IsAccepted(content, topics)
        THEN [documents |-> Append(acc.documents,
                                   [content |-> content.v, topics |-> topics.v]),
              vocabulary |-> acc.vocabulary \cup Range(tokenize(content.v))]
        ELSE acc

RECURSIVE CollectDocuments(_, _)
CollectDocuments(acc, docs_list) ==
    IF docs_list = <<>> THEN acc
    ELSE CollectDocuments(TrainStep(acc, Head(docs_list)), Tail(docs_list))

(***************************************************************************)
(* train_naive_bayes                                                       *)
(***************************************************************************)
RECURSIVE CountTokens(_, _, _, _)
\* the loop over the tokens of one document for one of its topics
CountTokens(word_counts, topic_count, tokens, vocabulary) ==
    IF tokens = <<>> THEN [word_counts |-> word_counts, topic_count |-> topic_count]
    ELSE IF Head(tokens) \in vocabulary
    THEN CountTokens(Put(word_counts, Head(tokens), GetOr(word_counts, Head(tokens), 0) + 1),
                     topic_count + 1, Tail(tokens), vocabulary)
    ELSE CountTokens(word_counts, topic_count, Tail(tokens), vocabulary)

\* CountTopic with the total word count entered only once a token is counted
CountTopicLazyTotal(acc, topic, tokens, vocabulary) ==
    LET counted == CountTokens(GetOr(acc.word_given_topic, topic, EmptyMap),
                               GetOr(acc.topic_word_counts, topic, 0),
                               tokens, vocabulary)
    IN  [topic_priors |-> Put(acc.topic_priors, topic,
                              FAdd(GetOr(acc.topic_priors, topic, FZero), FOne)),
         word_given_topic |-> Put(acc.word_given_topic, topic, counted.word_counts),
         topic_word_counts |->
            IF counted.topic_count > 0
            THEN Put(acc.topic_word_counts, topic, counted.topic_count)
            ELSE acc.topic_word_counts]

\* the body of the loop over doc.topics
CountTopic(acc, topic, tokens, vocabulary) ==
    LET counted == CountTokens(GetOr(acc.word_given_topic, topic, EmptyMap),
                               GetOr(acc.topic_word_counts, topic, 0),
                               tokens, vocabulary)
    IN  [topic_priors |-> Put(acc.topic_priors, topic,
                              FAdd(GetOr(acc.topic_priors, topic, FZero), FOne)),
         word_given_topic |-> Put(acc.word_given_topic, topic, counted.word_counts),
         topic_word_counts |-> Put(acc.topic_word_counts, topic, counted.topic_count)]

RECURSIVE CountTopics(_, _, _, _)
CountTopics(acc, topics, tokens, vocabulary) ==
    IF topics = <<>> THEN acc
    ELSE CountTopics(CountTopic(acc, Head(topics), tokens, vocabulary),
                     Tail(topics), tokens, vocabulary)

RECURSIVE CountDocuments(_, _, _)
\* the loop over training_data.documents
CountDocuments(acc, documents, vocabulary) ==
    IF documents = <<>> THEN acc
    ELSE CountDocuments(CountTopics(acc, Head(documents).topics,
                                    tokenize(Head(documents).content), vocabulary),
                        Tail(documents), vocabulary)

\* count / total_docs
NormalizePrior(count, total_docs) == FDiv(count, total_docs)

\* SmoothedProb without the vocabulary size in the denominator
SmoothedProbNoVocabulary(count, total_words, vocabulary_size) ==
    FDiv(AsF64(count + 1), AsF64(total_words))

\* Laplace smoothing: (count + 1) / (total_words + vocabulary_size)
SmoothedProb(count, total_words, vocabulary_size) ==
    FDiv(AsF64(count + 1), FAdd(AsF64(total_words), AsF64(vocabulary_size)))

train_naive_bayes(training_data) ==
    LET total_docs == AsF64(Len(training_data.documents))
        counts == CountDocuments([topic_priors |-> EmptyMap,
                                  word_given_topic |-> EmptyMap,
                                  topic_word_counts |-> EmptyMap],
                                 training_data.documents, training_data.vocabulary)
        vocabulary_size == Cardinality(training_data.vocabulary)
    IN  [topic_priors |->
            [t \in DOMAIN counts.topic_priors |->
                NormalizePrior(counts.topic_priors[t], total_docs)],
         word_given_topic |->
            [t \in DOMAIN counts.word_given_topic |->
                [w \in DOMAIN counts.word_given_topic[t] |->
                    SmoothedProb(counts.word_given_topic[t][w],
                                 GetOr(counts.topic_word_counts, t, 0),
                                 vocabulary_size)]],
         vocabulary_size |-> vocabulary_size,
         topic_word_counts |-> counts.topic_word_counts]

(***************************************************************************)
(* The serialized model: a JSON object is the set of its members.          *)
(***************************************************************************)
JsonObject(m) == {<<key, m[key]>> : key \in DOMAIN m}
FromJsonObject(o) ==
    [key \in {p[1] : p \in o} |-> (CHOOSE p \in o : p[1] = key)[2]]

\* serde_json::to_string(&model)
ToJson(model) ==
    [topic_priors |-> JsonObject(model.topic_priors),
     word_given_topic |->
        JsonObject([t \in DOMAIN model.word_given_topic |->
                       JsonObject(model.word_given_topic[t])]),
     vocabulary_size |-> model.vocabulary_size,
     topic_word_counts |-> JsonObject(model.topic_word_counts)]

\* serde_json::from_str(&model_json)
FromJson(json) ==
    LET tables == FromJsonObject(json.word_given_topic)
    IN  [topic_priors |-> FromJsonObject(json.topic_priors),
         word_given_topic |-> [t \in DOMAIN tables |-> FromJsonObject(tables[t])],
         vocabulary_size |-> json.vocabulary_size,
         topic_word_counts |-> FromJsonObject(json.topic_word_counts)]

NoValidTrainingDocuments == [tag |-> "error", val |-> "No valid training documents"]
Ok(v) == [tag |-> "ok", val |-> v]

\* the train NIF
train(training_data_term) ==
    LET training_data == CollectDocuments([documents |-> <<>>, vocabulary |-> {}],
                                          training_data_term)
    IN  IF training_data.documents = <<>>
        THEN NoValidTrainingDocuments
        ELSE Ok(ToJson(train_naive_bayes(training_data)))

(***************************************************************************)
(* classify_naive_bayes                                                    *)
(***************************************************************************)
\* the probability whose logarithm is added for one token under one topic
TokenProb(model, topic, token) ==
    IF token \in DOMAIN model.word_given_topic[topic]
    THEN model.word_given_topic[topic][token]
    ELSE LET total_words == AsF64(GetOr(model.topic_word_counts, topic, 0))
         IN  FDiv(FOne, FAdd(total_words, AsF64(model.vocabulary_size)))

\* the body of the loop over the tokens
AddToken(log_prob, model, topic, token) ==
    IF topic \in DOMAIN model.word_given_topic
    THEN LogAdd(log_prob, Ln(TokenProb(model, topic, token)))
    ELSE log_prob

RECURSIVE AddTokens(_, _, _, _)
AddTokens(log_prob, model, topic, toks) ==
    IF toks = <<>> THEN log_prob
    ELSE AddTokens(AddToken(log_prob, model, topic, Head(toks)), model, topic, Tail(toks))

\* the closure mapped over model.topic_priors
TopicLogProb(model, topic, toks) ==
    AddTokens(Ln(model.topic_priors[topic]), model, topic, toks)

RECURSIVE MaxLogProb(_)
\* fold(f64::NEG_INFINITY, f64::max) over the scores
MaxLogProb(scores) ==
    IF scores = <<>> THEN NEG_INFINITY
    ELSE LogMax(MaxLogProb(SubSeq(scores, 1, Len(scores) - 1)), scores[Len(scores)][2])

RECURSIVE SumProb(_)
\* the sum of the scores, from 0.0
SumProb(scores) ==
    IF scores = <<>> THEN FZero
    ELSE FAdd(SumProb(SubSeq(scores, 1, Len(scores) - 1)), scores[Len(scores)][2])

\* exp(log_prob - max_log_prob) for every topic
Exponentiate(scores) ==
    LET max_log_prob == MaxLogProb(scores)
    IN  [i \in DOMAIN scores |->
            <<scores[i][1], Exp(LogSub(scores[i][2], max_log_prob))>>]

\* division by the sum when the sum is positive
Normalize(scores) ==
    LET sum == SumProb(scores)
    IN  IF FGt(sum, FZero)
        THEN [i \in DOMAIN scores |-> <<scores[i][1], FDiv(scores[i][2], sum)>>]
        ELSE scores

\* CompareScores with the operands in ascending order
CompareScoresAscending(a, b) == PartialCmpOrEqual(a[2], b[2])

\* the comparator of sort_by: b.1.partial_cmp(&a.1).unwrap_or(Equal)
CompareScores(a, b) == PartialCmpOrEqual(b[2], a[2])

RECURSIVE InsertScore(_, _)
\* x goes behind every element it does not compare Less to (stable)
InsertScore(sorted, x) ==
    IF sorted = <<>> THEN <<x>>
    ELSE IF CompareScores(x, sorted[Len(sorted)]) = "Less"
    THEN Append(InsertScore(SubSeq(sorted, 1, Len(sorted) - 1), x), sorted[Len(sorted)])
    ELSE Append(sorted, x)

RECURSIVE SortScores(_)
\* slice::sort_by, a stable sort
SortScores(scores) ==
    IF scores = <<>> THEN <<>>
    ELSE InsertScore(SortScores(SubSeq(scores, 1, Len(scores) - 1)), scores[Len(scores)])

\* order is the order in which model.topic_priors is iterated
classify_naive_bayes(model, doc, order) ==
    LET toks == tokenize(doc)
        topic_scores == [i \in DOMAIN order |->
                            <<order[i], TopicLogProb(model, order[i], toks)>>]
    IN  SortScores(Normalize(Exponentiate(topic_scores)))

\* the classify NIF: the list of maps with the keys topic and confidence
classify(doc, json, order) ==
    LET topic_scores == classify_naive_bayes(FromJson(json), doc, order)
    IN  [i \in DOMAIN topic_scores |->
            [topic |-> topic_scores[i][1], confidence |-> topic_scores[i][2]]]

\* the orders in which the HashMap topic_priors of a deserialized model can
\* be iterated
IterationOrders(json) == Permutations_(DOMAIN FromJson(json).topic_priors)

(***************************************************************************)
(* Inputs.                                                                 *)
(***************************************************************************)
TextAlphabet == {"a", "B", "1", " ", "-", "ñ", "ç"}

ScenarioFinance ==
    <<"s", "t", "o", "c", "k", "s", " ", "r", "a", "l", "l", "y",
      " ", "a", "m", "i", "d", " ", "e", "c", "o", "n", "o", "m",
      "i", "c", " ", "g", "r", "o", "w", "t", "h">>
ScenarioSports ==
    <<"t", "e", "a", "m", " ", "w", "i", "n", "s", " ", "c", "h",
      "a", "m", "p", "i", "o", "n", "s", "h", "i", "p", " ", "g",
      "a", "m", "e">>
ScenarioDocument ==
    <<"t", "h", "e", " ", "s", "t", "o", "c", "k", " ", "m", "a",
      "r", "k", "e", "t", " ", "r", "a", "l", "l", "i", "e", "d",
      " ", "t", "o", "d", "a", "y">>
ScenarioTraining ==
    << [content |-> BinaryTerm(ScenarioFinance), topics |-> ListTerm(<<"finance">>)],
       [content |-> BinaryTerm(ScenarioSports), topics |-> ListTerm(<<"sports">>)] >>

\* contents of accepted records: no token, one word, another word
ValidContents == {<<"a">>, <<"a", "a", "a">>, <<"b", "b", "b">>}
\* topic lists of accepted records: single, multi-label, repeated label
ValidTopicLists ==
    {<<"finance">>, <<"sports">>, <<"finance", "sports">>, <<"finance", "finance">>}
ValidDocTerms ==
    {[content |-> BinaryTerm(c), topics |-> ListTerm(l)] :
        c \in ValidContents, l \in ValidTopicLists}
\* records train skips: a missing, undecodable or empty content, or a
\* missing, undecodable or empty topic list
InvalidDocTerms ==
    {[content |-> c, topics |-> ListTerm(<<"finance">>)] :
        c \in {AbsentTerm, IntegerTerm, BinaryTerm(<<>>)}}
    \cup
    {[content |-> BinaryTerm(<<"b", "b", "b">>), topics |-> t] :
        t \in {AbsentTerm, IntegerTerm, ListTerm(<<>>)}}
DocTerms == ValidDocTerms \cup InvalidDocTerms
TrainingInputs == SeqsUpTo(DocTerms, MaxDocs) \cup {ScenarioTraining}
QueryDocuments ==
    {<<>>, <<"a", "a", "a">>, <<"b", "b", "b">>, <<"c", "c", "c">>,
     <<"a", "a", "a", " ", "b", "b", "b">>, ScenarioDocument}
Texts == SeqsUpTo(TextAlphabet, MaxTextLen)

(***************************************************************************)
(* State.                                                                  *)
(***************************************************************************)
VARIABLES
    pc,                  \* "start", "trained", "failed", "classified",
                         \* "tokenize", "tokenized"
    training_data_term,  \* the argument of train
    model_json,          \* the result of train
    document,            \* the text last classified or tokenized
    tokens,              \* the tokens of document
    topics_list          \* the result of the last classify

vars == <<pc, training_data_term, model_json, document, tokens, topics_list>>

NotTrained == [tag |-> "none", val |-> <<>>]

Init ==
    /\ pc = "start"
    /\ training_data_term \in TrainingInputs
    /\ model_json = NotTrained
    /\ document = <<>>
    /\ tokens = <<>>
    /\ topics_list = <<>>

Train ==
    /\ pc = "start"
    /\ model_json' = train(training_data_term)
    /\ pc' = IF model_json'.tag = "ok" THEN "trained" ELSE "failed"
    /\ UNCHANGED <<training_data_term, document, tokens, topics_list>>

\* one call of the classify NIF with the model train returned
Classify(doc, order) ==
    /\ document' = doc
    /\ tokens' = tokenize(doc)
    /\ topics_list' = classify(doc, model_json.val, order)
    /\ pc' = "classified"
    /\ UNCHANGED <<training_data_term, model_json>>

\* the first call, with any document
ClassifyFirst ==
    /\ pc = "trained"
    /\ \E doc \in QueryDocuments :
        \E order \in IterationOrders(model_json.val) : Classify(doc, order)

\* the same call once more: same document, same serialized model
ClassifyAgain ==
    /\ pc = "classified"
    /\ \E order \in IterationOrders(model_json.val) : Classify(document, order)

Next == Train \/ ClassifyFirst \/ ClassifyAgain

Spec == Init /\ [][Next]_vars

(***************************************************************************)
(* The tokenizer on its own, over all short texts.                         *)
(***************************************************************************)
InitTok ==
    /\ pc = "tokenize"
    /\ training_data_term = <<>>
    /\ model_json = NotTrained
    /\ document \in Texts
    /\ tokens = <<>>
    /\ topics_list = <<>>

Tokenize ==
    /\ pc = "tokenize"
    /\ tokens' = tokenize(document)
    /\ pc' = "tokenized"
    /\ UNCHANGED <<training_data_term, model_json, document, topics_list>>

NextTok == Tokenize

SpecTok == InitTok /\ [][NextTok]_vars

(***************************************************************************)
(* Notions the properties are stated in.                                   *)
(***************************************************************************)
\* the model train returned, once it has returned one
TrainedModel == FromJson(model_json.val)
HasModel == pc \in {"trained", "classified"}

\* a record with a non-empty content and a non-empty topic list
RecordIsValid(doc_term) ==
    /\ doc_term.content.tag = "binary"
    /\ Len(doc_term.content.val) > 0
    /\ doc_term.topics.tag = "list"
    /\ Len(doc_term.topics.val) > 0

ValidRecords == SelectSeq(training_data_term, RecordIsValid)

RECURSIVE SumOver(_, _)
\* the sum of the f64 values f[x], x in S
SumOver(f, S) ==
    IF S = {} THEN FZero
    ELSE LET x == CHOOSE y \in S : TRUE IN FAdd(f[x], SumOver(f, S \ {x}))

RECURSIVE SumInt(_, _)
SumInt(f, S) ==
    IF S = {} THEN 0
    ELSE LET x == CHOOSE y \in S : TRUE IN f[x] + SumInt(f, S \ {x})

ConfidenceSum ==
    SumOver([i \in DOMAIN topics_list |-> topics_list[i].confidence], DOMAIN topics_list)

\* the confidence returned for a topic
ConfidenceOf(topic) ==
    LET i == CHOOSE j \in DOMAIN topics_list : topics_list[j].topic = topic
    IN  topics_list[i].confidence

\* occurrences of word w in the token sequence toks
Occurrences(w, toks) == Cardinality({i \in DOMAIN toks : toks[i] = w})

\* occurrences of w in the valid records labelled t
CountInTopic(w, t) ==
    SumInt([i \in DOMAIN ValidRecords |->
               IF t \in Range(ValidRecords[i].topics.val)
               THEN Occurrences(w, tokenize(ValidRecords[i].content.val))
               ELSE 0],
           DOMAIN ValidRecords)

\* tokens of the valid records labelled t
TotalWordsInTopic(t) ==
    SumInt([i \in DOMAIN ValidRecords |->
               IF t \in Range(ValidRecords[i].topics.val)
               THEN Len(tokenize(ValidRecords[i].content.val))
               ELSE 0],
           DOMAIN ValidRecords)

\* the pairs of a valid record and one of its distinct topics
TopicAssociations ==
    SumInt([i \in DOMAIN ValidRecords |-> Cardinality(Range(ValidRecords[i].topics.val))],
           DOMAIN ValidRecords)

(***************************************************************************)
(* C1: trained on the two-document finance/sports scenario, classifying    *)
(* "the stock market rallied today" returns "finance" first, with a        *)
(* confidence strictly greater than that of "sports".                      *)
(***************************************************************************)
C1_FinanceRankedFirst ==
    (pc = "classified" /\ training_data_term = ScenarioTraining
        /\ document = ScenarioDocument)
    => /\ Len(topics_list) = 2
       /\ topics_list[1].topic = "finance"
       /\ FGt(ConfidenceOf("finance"), ConfidenceOf("sports"))

(***************************************************************************)
(* C2: every confidence classify returns lies in [0,1] and the confidences *)
(* sum to 1, for every trained model and every document.                   *)
(***************************************************************************)
C2_NormalizedDistribution ==
    pc = "classified"
    => /\ \A i \in DOMAIN topics_list :
            /\ FLe(FZero, topics_list[i].confidence)
            /\ FLe(topics_list[i].confidence, FOne)
       /\ ConfidenceSum = FOne

(***************************************************************************)
(* C3 as stated: every probability stored in word_given_topic is strictly  *)
(* greater than 0 and strictly less than 1.                                *)
(***************************************************************************)
C3_ProbStrictlyInside ==
    HasModel
    => \A t \in DOMAIN TrainedModel.word_given_topic :
         \A w \in DOMAIN TrainedModel.word_given_topic[t] :
            /\ FLt(FZero, TrainedModel.word_given_topic[t][w])
            /\ FLt(TrainedModel.word_given_topic[t][w], FOne)

(***************************************************************************)
(* C3 amended: every probability stored in word_given_topic is strictly    *)
(* greater than 0 and at most 1; it is strictly less than 1 when the       *)
(* vocabulary has two or more words and equal to 1 when it has one.        *)
(***************************************************************************)
C3_ProbInUnitInterval ==
    HasModel
    => \A t \in DOMAIN TrainedModel.word_given_topic :
         \A w \in DOMAIN TrainedModel.word_given_topic[t] :
            /\ FLt(FZero, TrainedModel.word_given_topic[t][w])
            /\ FLe(TrainedModel.word_given_topic[t][w], FOne)
            /\ TrainedModel.vocabulary_size >= 2
                 => FLt(TrainedModel.word_given_topic[t][w], FOne)
            /\ TrainedModel.vocabulary_size = 1
                 => TrainedModel.word_given_topic[t][w] = FOne

\* a model over two words with a topic all of whose tokens are one word
C3_Witness ==
    /\ pc = "trained"
    /\ TrainedModel.vocabulary_size >= 2
    /\ \E t \in DOMAIN TrainedModel.word_given_topic :
         /\ Cardinality(DOMAIN TrainedModel.word_given_topic[t]) = 1
         /\ TrainedModel.topic_word_counts[t] >= 2

(***************************************************************************)
(* C4: every prior lies in (0,1] and the priors sum to the number of       *)
(* distinct topic-document associations divided by the number of accepted  *)
(* documents.                                                              *)
(***************************************************************************)
C4_PriorsAreProbabilities ==
    HasModel
    => /\ \A t \in DOMAIN TrainedModel.topic_priors :
            /\ FLt(FZero, TrainedModel.topic_priors[t])
            /\ FLe(TrainedModel.topic_priors[t], FOne)
       /\ SumOver(TrainedModel.topic_priors, DOMAIN TrainedModel.topic_priors)
            = FDiv(AsF64(TopicAssociations), AsF64(Len(ValidRecords)))

(***************************************************************************)
(* C5: a second classify call with the same document and the same          *)
(* serialized model returns the same entries in the same order.            *)
(***************************************************************************)
C5_ClassifyDeterministic ==
    [][(pc = "classified" /\ pc' = "classified"
          /\ document' = document /\ model_json' = model_json)
       => topics_list' = topics_list]_vars

(***************************************************************************)
(* C6: the result of classify has exactly one entry for each topic of      *)
(* topic_priors and its confidences never increase along the sequence.     *)
(***************************************************************************)
C6_ExhaustiveAndSorted ==
    pc = "classified"
    => /\ Len(topics_list) = Cardinality(DOMAIN TrainedModel.topic_priors)
       /\ {topics_list[i].topic : i \in DOMAIN topics_list}
            = DOMAIN TrainedModel.topic_priors
       /\ \A i, j \in DOMAIN topics_list :
            i < j => ~FLt(topics_list[i].confidence, topics_list[j].confidence)

\* two topics with different confidences, iterated in the opposite order
C6_Witness ==
    /\ pc = "classified"
    /\ Len(topics_list) = 2
    /\ FGt(topics_list[1].confidence, topics_list[2].confidence)
    /\ topics_list[1].topic = "sports"
    /\ tokens # <<>>

(***************************************************************************)
(* C7: train returns the error "No valid training documents" exactly when  *)
(* no record has both a non-empty content and a non-empty topic list, and  *)
(* returns a model otherwise.                                              *)
(***************************************************************************)
C7_ErrorIffNoValidRecord ==
    pc # "start"
    => /\ model_json = NoValidTrainingDocuments <=> ValidRecords = <<>>
       /\ ValidRecords # <<>> => model_json.tag = "ok"

\* a skipped record in front of an accepted one
C7_Witness ==
    /\ pc = "trained"
    /\ Len(training_data_term) = 2
    /\ ~RecordIsValid(training_data_term[1])
    /\ RecordIsValid(training_data_term[2])

(***************************************************************************)
(* C8: the result of train is the result of train on the same list with    *)
(* the invalid records removed, field for field.                           *)
(***************************************************************************)
C8_InvalidRecordsHaveNoEffect ==
    pc # "start"
    => LET clean == train(ValidRecords)
       IN  /\ model_json.tag = clean.tag
           /\ model_json.tag = "ok" =>
                /\ TrainedModel.topic_priors = FromJson(clean.val).topic_priors
                /\ TrainedModel.word_given_topic = FromJson(clean.val).word_given_topic
                /\ TrainedModel.vocabulary_size = FromJson(clean.val).vocabulary_size
                /\ TrainedModel.topic_word_counts = FromJson(clean.val).topic_word_counts

\* a skipped record whose content has a token no accepted record has
C8_Witness ==
    /\ pc = "trained"
    /\ \E i \in DOMAIN training_data_term :
         /\ ~RecordIsValid(training_data_term[i])
         /\ training_data_term[i].content.tag = "binary"
         /\ \E w \in Range(tokenize(training_data_term[i].content.val)) :
              \A j \in DOMAIN ValidRecords :
                 w \notin Range(tokenize(ValidRecords[j].content.val))

(***************************************************************************)
(* C9: tokenize returns, in order, the maximal fragments of the lowercased *)
(* text made of ASCII alphanumeric and whitelisted characters that have    *)
(* more than 2 characters.                                                 *)
(***************************************************************************)
IsWordChar(c) == c \in AsciiLower \cup AsciiUpper \cup AsciiDigit \cup Whitelisted

RECURSIVE WordFragments(_, _, _)
WordFragments(s, i, cur) ==
    IF i > Len(s) THEN <<cur>>
    ELSE IF IsWordChar(s[i]) THEN WordFragments(s, i + 1, Append(cur, s[i]))
    ELSE <<cur>> \o WordFragments(s, i + 1, <<>>)

MoreThanTwoChars(s) == Len(s) > 2

C9_TokensAreLongWordFragments ==
    pc = "tokenized"
    => tokens = SelectSeq(WordFragments(ToLowercase(document), 1, <<>>), MoreThanTwoChars)

(***************************************************************************)
(* C10: under every topic, classify applies to every token w of the        *)
(* document the factor (count(w,t) + 1) / (total_words(t) +                *)
(* vocabulary_size), count(w,t) being the occurrences of w in the accepted *)
(* documents labelled t and total_words(t) the number of tokens of those   *)
(* documents.                                                              *)
(***************************************************************************)
C10_LikelihoodIsLaplace ==
    pc = "classified"
    => \A t \in DOMAIN TrainedModel.topic_priors :
         /\ t \in DOMAIN TrainedModel.word_given_topic
         /\ t \in DOMAIN TrainedModel.topic_word_counts
         /\ \A w \in Range(tokens) :
              TokenProb(TrainedModel, t, w)
                = FDiv(AsF64(CountInTopic(w, t) + 1),
                       FAdd(AsF64(TotalWordsInTopic(t)),
                            AsF64(TrainedModel.vocabulary_size)))

(***************************************************************************)
(* C11: topic_priors, word_given_topic and topic_word_counts of a trained  *)
(* model have the same keys, also for a topic whose documents yield no     *)
(* token, and topic_word_counts[t] is the sum of the occurrences counted   *)
(* into the word table of t.                                               *)
(***************************************************************************)
\* the count behind a stored probability: p * (total_words + V) - 1
CountedOccurrences(t, w) ==
    LET total == TrainedModel.topic_word_counts[t] + TrainedModel.vocabulary_size
    IN  FMul(TrainedModel.word_given_topic[t][w], AsF64(total)).n - 1

C11_SameKeysAndTotals ==
    HasModel
    => /\ DOMAIN TrainedModel.word_given_topic = DOMAIN TrainedModel.topic_priors
       /\ DOMAIN TrainedModel.topic_word_counts = DOMAIN TrainedModel.topic_priors
       /\ \A t \in DOMAIN TrainedModel.topic_priors :
            /\ \A w \in DOMAIN TrainedModel.word_given_topic[t] :
                 CountedOccurrences(t, w) >= 1
            /\ TrainedModel.topic_word_counts[t]
                 = SumInt([w \in DOMAIN TrainedModel.word_given_topic[t] |->
                              CountedOccurrences(t, w)],
                          DOMAIN TrainedModel.word_given_topic[t])

\* a topic whose documents yield no token beside a topic with a word
\* counted more than once
C11_Witness ==
    /\ pc = "trained"
    /\ \E t \in DOMAIN TrainedModel.topic_priors :
         /\ TrainedModel.word_given_topic[t] = EmptyMap
         /\ TrainedModel.topic_word_counts[t] = 0
    /\ \E t \in DOMAIN TrainedModel.topic_priors :
         \E w \in DOMAIN TrainedModel.word_given_topic[t] :
            CountedOccurrences(t, w) >= 2

====
